---- MODULE Spec2Model ----
(***************************************************************************)
(* Job lifecycle scheduler and execution supervisor of scoach:             *)
(*   coach/coach.py      Coach (lazy Scheduler/Executor, Supervisor loop)   *)
(*   scoach/executor.py  Executor.execute, _threaded_execution_handler and  *)
(*                       the flow tasks update_run_status, render_template, *)
(*                       execute_template                                   *)
(* The Supervisor thread and every pipeline thread advance one statement   *)
(* that touches shared state (the Run/Status store) per step.              *)
(***************************************************************************)
EXTENDS Integers, Sequences, FiniteSets, TLC

\* ------------------------------------------------------------------ bounds
NumRuns == 2
MaxThreads == 2
MaxExecCalls == 2
MaxStartCalls == 2

Runs == 1..NumRuns
Threads == 1..MaxThreads

\* ------------------------------------------------------- program constants
RUN_STATUS_CREATED == "created"
RUN_STATUS_QUEUED == "queued"
RUN_STATUS_RUNNING == "running"
RUN_STATUS_COMPLETED == "completed"
RUN_STATUS_FAILED == "failed"

StatusNames == {RUN_STATUS_CREATED, RUN_STATUS_QUEUED, RUN_STATUS_RUNNING,
                RUN_STATUS_COMPLETED, RUN_STATUS_FAILED}
Terminal == {RUN_STATUS_COMPLETED, RUN_STATUS_FAILED}

\* What a submitted Run carries: a script whose object is absent from the
\* object store, a template that does not render, a script whose subprocess
\* exits non-zero, or a script that exits 0.
RunKinds == {"no_artifact", "bad_template", "exit_nonzero", "ok"}

VARIABLES
    status,         \* Run.status (name of the attached Status row), "none" before submission
    kind,           \* the Run's script, as one of RunKinds
    statusRows,     \* Status table: number of rows per status name
    cliArgs,        \* latest `coach submit`: which of the files it needs exist
    cliOut,         \* latest `coach submit`: the message it printed
    scheduler,      \* Coach._scheduler is set
    executor,       \* Coach._executor is set
    schedulerInits, \* number of Scheduler() constructions (saturating at 2)
    executorInits,  \* number of Executor(...) constructions (saturating at 2)
    executorOf,     \* the Scheduler construction the Executor was built from, 0: none
    startCalls,     \* number of start_scheduler calls
    svPc,           \* Supervisor thread position
    new_runs,       \* the query result, from the Run the Supervisor is at onward
    cycle,          \* how the latest poll cycle went: "none", "returned", "query_raised", "execute_raised"
    sleeps,         \* number of time.sleep calls since the latest query (saturating at 2)
    execCalls,      \* number of Executor.execute(run_id) invocations per Run (saturating)
    tPc,            \* per pipeline thread: position in _threaded_execution_handler
    tRun,           \* per pipeline thread: its run_id
    tUrs,           \* per pipeline thread: position of the update_run_status task
    tJob            \* per pipeline thread: position of render_template -> execute_template

vars == <<status, kind, statusRows, cliArgs, cliOut, scheduler, executor,
          schedulerInits, executorInits, executorOf, startCalls, svPc, new_runs,
          cycle, sleeps, execCalls, tPc, tRun, tUrs, tJob>>

cliVars == <<cliArgs, cliOut>>
coachVars == <<scheduler, executor, schedulerInits, executorInits, executorOf, startCalls>>
supervisorVars == <<coachVars, svPc, new_runs, cycle, sleeps, execCalls>>
threadVars == <<tPc, tRun, tUrs, tJob>>

\* ------------------------------------------------------------------ helpers
\* All orders in which a query may return the set S of Runs.
Orders(S) ==
    {q \in [1..Cardinality(S) -> S] : \A i, j \in 1..Cardinality(S) : i # j => q[i] # q[j]}

\* safe_object_get(Status, status=name): a row or None.
StatusExists(name) == statusRows[name] > 0

\* Status(status=name).save(): one more row of that name.
StatusSave(rows, name) == [rows EXCEPT ![name] = @ + 1]

\* Run.objects.all().filter(status__status="created")
CreatedRuns == {r \in Runs : status[r] = RUN_STATUS_CREATED}

\* A pipeline thread that was started and has not returned ("idle": no
\* thread occupies the slot).
Active(t) == tPc[t] # "idle"
ActiveOn(r) == {t \in Threads : Active(t) /\ tRun[t] = r}

\* The slots available to Thread(...).start().
FreeThreads == {t \in Threads : ~Active(t)}
NextThread == CHOOSE t \in FreeThreads : \A u \in FreeThreads : t <= u

\* Mutant: the flow run counts as finished once the script tasks are over,
\* whether or not update_run_status has run.
FlowFinished_IgnoresStatusTask(t) == tJob[t] \in {"done", "failed"}

\* state.is_finished() / is_failed() / is_successful() of the flow run.
FlowFinished(t) == tUrs[t] = "done" /\ tJob[t] \in {"done", "failed"}
FlowFailed(t) == FlowFinished(t) /\ tJob[t] = "failed"
FlowSuccessful(t) == FlowFinished(t) /\ tJob[t] = "done"
\* Mutant: the handler writes `completed` whatever the finished state is.
TerminalName_AlwaysCompleted(t) == RUN_STATUS_COMPLETED

TerminalName(t) == IF FlowFailed(t) THEN RUN_STATUS_FAILED ELSE RUN_STATUS_COMPLETED

\* The files `coach submit` needs: the config file and its three arguments.
CliArgSets == [config : BOOLEAN, python_script : BOOLEAN,
               job_config : BOOLEAN, model_config : BOOLEAN]
AllPresent == [config |-> TRUE, python_script |-> TRUE,
               job_config |-> TRUE, model_config |-> TRUE]

\* ---------------------------------------------------------------------- Init
Init ==
    /\ status = [r \in Runs |-> "none"]
    /\ kind = [r \in Runs |-> "ok"]
    /\ statusRows = [n \in StatusNames |-> 0]
    /\ cliArgs = AllPresent
    /\ cliOut = "none"
    /\ scheduler = FALSE
    /\ executor = FALSE
    /\ schedulerInits = 0
    /\ executorInits = 0
    /\ executorOf = 0
    /\ startCalls = 0
    /\ svPc = "init"
    /\ new_runs = <<>>
    /\ cycle = "none"
    /\ sleeps = 0
    /\ execCalls = [r \in Runs |-> 0]
    /\ tPc = [t \in Threads |-> "idle"]
    /\ tRun = [t \in Threads |-> 1]
    /\ tUrs = [t \in Threads |-> "done"]
    /\ tJob = [t \in Threads |-> "done"]

\* ------------------------------------------------------------- submission
\* submit_job: persist a Run in status `created` (get-or-create the row).
\* Runs are submitted in id order.
SubmitJob(r, k) ==
    /\ status[r] = "none"
    /\ \A q \in Runs : q < r => status[q] # "none"
    /\ status' = [status EXCEPT ![r] = RUN_STATUS_CREATED]
    /\ kind' = [kind EXCEPT ![r] = k]
    /\ statusRows' = IF StatusExists(RUN_STATUS_CREATED) THEN statusRows
                     ELSE StatusSave(statusRows, RUN_STATUS_CREATED)
    /\ UNCHANGED <<supervisorVars, threadVars>>

\* check_config(): whether the config file exists.
check_config(args) == args.config

\* Mutant: the check of the model config echoes but does not return.
Submit_NoReturnOnModelConfig(args, r, k) ==
    /\ cliArgs' = args
    /\ IF ~check_config(args)
       THEN /\ cliOut' = "No config file found."
            /\ UNCHANGED <<status, kind, statusRows, supervisorVars, threadVars>>
       ELSE IF ~args.python_script
       THEN /\ cliOut' = "Python script does not exist."
            /\ UNCHANGED <<status, kind, statusRows, supervisorVars, threadVars>>
       ELSE IF ~args.job_config
       THEN /\ cliOut' = "Job config does not exist."
            /\ UNCHANGED <<status, kind, statusRows, supervisorVars, threadVars>>
       ELSE /\ cliOut' = IF ~args.model_config THEN "Model config does not exist."
                         ELSE "Submitted job with run id"
            /\ SubmitJob(r, k)

\* `coach submit`: the checks of the config file and of the three paths,
\* each returning early, then Coach().submit_job(...).
Submit(args, r, k) ==
    /\ cliArgs' = args
    /\ IF ~check_config(args)
       THEN /\ cliOut' = "No config file found."
            /\ UNCHANGED <<status, kind, statusRows, supervisorVars, threadVars>>
       ELSE IF ~args.python_script
       THEN /\ cliOut' = "Python script does not exist."
            /\ UNCHANGED <<status, kind, statusRows, supervisorVars, threadVars>>
       ELSE IF ~args.job_config
       THEN /\ cliOut' = "Job config does not exist."
            /\ UNCHANGED <<status, kind, statusRows, supervisorVars, threadVars>>
       ELSE IF ~args.model_config
       THEN /\ cliOut' = "Model config does not exist."
            /\ UNCHANGED <<status, kind, statusRows, supervisorVars, threadVars>>
       ELSE /\ cliOut' = "Submitted job with run id"
            /\ SubmitJob(r, k)

\* ------------------------------------------------------------------ Coach
\* `if not self._scheduler` and `if not self._executor`.
NeedsScheduler == ~scheduler

\* Mutant: the Executor is built at every use, the `if not` guard missing.
NeedsExecutor_Always == TRUE

NeedsExecutor == ~executor

\* `if not self._scheduler: self._initialize_scheduler()` followed by
\* `if not self._executor: self._initialize_executor()`; the latter builds
\* the Executor from self._scheduler, which is set by then.
LazyInit ==
    LET inits == IF NeedsScheduler /\ schedulerInits < 2 THEN schedulerInits + 1
                 ELSE schedulerInits
    IN  /\ scheduler' = TRUE
        /\ schedulerInits' = inits
        /\ executor' = TRUE
        /\ executorInits' = IF NeedsExecutor /\ executorInits < 2 THEN executorInits + 1
                            ELSE executorInits
        /\ executorOf' = IF NeedsExecutor THEN inits ELSE executorOf

\* ------------------------------------------------------------- Supervisor
\* Coach.start_scheduler: lazy Scheduler, lazy Executor, start the thread.
StartScheduler ==
    /\ svPc = "init"
    /\ LazyInit
    /\ startCalls' = startCalls + 1
    /\ svPc' = "poll"
    /\ UNCHANGED <<status, kind, cliVars, statusRows, new_runs, cycle, sleeps, execCalls, threadVars>>

\* A further call of Coach.start_scheduler on the same instance: the same
\* lazy initialisation. The Supervisor thread it starts runs the same loop
\* over the same self._scheduler and self._executor as the first one; its
\* position is not kept.
RestartScheduler ==
    /\ svPc # "init"
    /\ startCalls < MaxStartCalls
    /\ LazyInit
    /\ startCalls' = startCalls + 1
    /\ UNCHANGED <<status, kind, cliVars, statusRows, svPc, new_runs, cycle, sleeps, execCalls, threadVars>>

\* Mutant: the exception of the query leaves the while loop.
PollRaises_LeavesLoop ==
    /\ svPc = "poll"
    /\ svPc' = "stopped"
    /\ new_runs' = <<>>
    /\ cycle' = "query_raised"
    /\ sleeps' = 0
    /\ UNCHANGED <<status, kind, cliVars, statusRows, coachVars, execCalls, threadVars>>

\* The query of a poll cycle raises: except-clause, then finally-clause.
PollRaises ==
    /\ svPc = "poll"
    /\ svPc' = "sleep"
    /\ new_runs' = <<>>
    /\ cycle' = "query_raised"
    /\ sleeps' = 0
    /\ UNCHANGED <<status, kind, cliVars, statusRows, coachVars, execCalls, threadVars>>

\* The query of a poll cycle returns the `created` Runs, in some order.
PollReturns ==
    /\ svPc = "poll"
    /\ \E q \in Orders(CreatedRuns) : new_runs' = q
    /\ svPc' = "dispatch"
    /\ cycle' = "returned"
    /\ sleeps' = 0
    /\ UNCHANGED <<status, kind, cliVars, statusRows, coachVars, execCalls, threadVars>>

\* Executor.execute(run_id) raises while the flow is built.
ExecuteRaises(r) == kind[r] = "no_artifact"

\* Mutant: the Supervisor claims the Run itself (writes `queued`) before
\* handing it to the Executor.
Dispatch_WritesStatus ==
    /\ svPc = "dispatch"
    /\ new_runs # <<>>
    /\ LET r == Head(new_runs) IN
        /\ LazyInit
        /\ UNCHANGED startCalls
        /\ execCalls' = [execCalls EXCEPT ![r] = IF @ < MaxExecCalls THEN @ + 1 ELSE @]
        /\ status' = [status EXCEPT ![r] = RUN_STATUS_QUEUED]
        /\ IF ExecuteRaises(r)
           THEN /\ svPc' = "sleep"
                /\ cycle' = "execute_raised"
                /\ UNCHANGED <<new_runs, threadVars>>
           ELSE /\ FreeThreads # {}
                /\ svPc' = "dispatch"
                /\ new_runs' = Tail(new_runs)
                /\ UNCHANGED cycle
                /\ tPc' = [tPc EXCEPT ![NextThread] = "q_get"]
                /\ tRun' = [tRun EXCEPT ![NextThread] = r]
                /\ tUrs' = [tUrs EXCEPT ![NextThread] = "get"]
                /\ tJob' = [tJob EXCEPT ![NextThread] = "render"]
    /\ UNCHANGED <<kind, cliVars, statusRows, sleeps>>

\* Mutant: execute starts the pipeline thread before it fetches the script,
\* so the thread exists although execute raises.
Dispatch_ThreadBeforeBuild ==
    /\ svPc = "dispatch"
    /\ new_runs # <<>>
    /\ FreeThreads # {}
    /\ LET r == Head(new_runs) IN
        /\ LazyInit
        /\ UNCHANGED startCalls
        /\ execCalls' = [execCalls EXCEPT ![r] = IF @ < MaxExecCalls THEN @ + 1 ELSE @]
        /\ tPc' = [tPc EXCEPT ![NextThread] = "q_get"]
        /\ tRun' = [tRun EXCEPT ![NextThread] = r]
        /\ tUrs' = [tUrs EXCEPT ![NextThread] = "get"]
        /\ tJob' = [tJob EXCEPT ![NextThread] = "render"]
        /\ IF ExecuteRaises(r)
           THEN /\ svPc' = "sleep"
                /\ cycle' = "execute_raised"
                /\ UNCHANGED new_runs
           ELSE /\ svPc' = "dispatch"
                /\ new_runs' = Tail(new_runs)
                /\ UNCHANGED cycle
    /\ UNCHANGED <<status, kind, cliVars, statusRows, sleeps>>

\* Mutant: execute waits for the pipeline (thread.join()): a dispatch only
\* goes through once no earlier pipeline is left.
Dispatch_WaitsForPipeline ==
    /\ svPc = "dispatch"
    /\ new_runs # <<>>
    /\ \A t \in Threads : ~Active(t)
    /\ LET r == Head(new_runs) IN
        /\ LazyInit
        /\ UNCHANGED startCalls
        /\ execCalls' = [execCalls EXCEPT ![r] = IF @ < MaxExecCalls THEN @ + 1 ELSE @]
        /\ IF ExecuteRaises(r)
           THEN /\ svPc' = "sleep"
                /\ cycle' = "execute_raised"
                /\ UNCHANGED <<new_runs, threadVars>>
           ELSE /\ svPc' = "dispatch"
                /\ new_runs' = Tail(new_runs)
                /\ UNCHANGED cycle
                /\ tPc' = [tPc EXCEPT ![NextThread] = "q_get"]
                /\ tRun' = [tRun EXCEPT ![NextThread] = r]
                /\ tUrs' = [tUrs EXCEPT ![NextThread] = "get"]
                /\ tJob' = [tJob EXCEPT ![NextThread] = "render"]
    /\ UNCHANGED <<status, kind, cliVars, statusRows, sleeps>>

\* One iteration of `for run in new_runs`: lazy initialisation, then
\* execute(run.id), which either raises (the except-clause ends the cycle,
\* the Runs from this one onward are not iterated) or starts a thread.
Dispatch ==
    /\ svPc = "dispatch"
    /\ new_runs # <<>>
    /\ LET r == Head(new_runs) IN
        /\ LazyInit
        /\ UNCHANGED startCalls
        /\ execCalls' = [execCalls EXCEPT ![r] = IF @ < MaxExecCalls THEN @ + 1 ELSE @]
        /\ IF ExecuteRaises(r)
           THEN /\ svPc' = "sleep"
                /\ cycle' = "execute_raised"
                /\ UNCHANGED <<new_runs, threadVars>>
           ELSE /\ FreeThreads # {}
                /\ svPc' = "dispatch"
                /\ new_runs' = Tail(new_runs)
                /\ UNCHANGED cycle
                /\ tPc' = [tPc EXCEPT ![NextThread] = "q_get"]
                /\ tRun' = [tRun EXCEPT ![NextThread] = r]
                /\ tUrs' = [tUrs EXCEPT ![NextThread] = "get"]
                /\ tJob' = [tJob EXCEPT ![NextThread] = "render"]
    /\ UNCHANGED <<status, kind, cliVars, statusRows, sleeps>>

\* The for loop is exhausted: finally-clause.
EndCycle ==
    /\ svPc = "dispatch"
    /\ new_runs = <<>>
    /\ svPc' = "sleep"
    /\ UNCHANGED <<status, kind, cliVars, statusRows, coachVars, new_runs, cycle, sleeps, execCalls, threadVars>>

\* time.sleep(SCHEDULER_SLEEP_TIME), then the next cycle.
Sleep ==
    /\ svPc = "sleep"
    /\ svPc' = "poll"
    /\ sleeps' = IF sleeps < 2 THEN sleeps + 1 ELSE sleeps
    /\ UNCHANGED <<status, kind, cliVars, statusRows, coachVars, new_runs, cycle, execCalls, threadVars>>

\* ------------------------------------------------- pipeline thread: queued
\* status = safe_object_get(Status, status="queued")
HandlerGetQueued(t) ==
    /\ tPc[t] = "q_get"
    /\ tPc' = [tPc EXCEPT ![t] = IF StatusExists(RUN_STATUS_QUEUED) THEN "q_save" ELSE "q_new"]
    /\ UNCHANGED <<status, kind, cliVars, statusRows, supervisorVars, tRun, tUrs, tJob>>

\* status = Status(status="queued"); status.save()
HandlerNewQueued(t) ==
    /\ tPc[t] = "q_new"
    /\ statusRows' = StatusSave(statusRows, RUN_STATUS_QUEUED)
    /\ tPc' = [tPc EXCEPT ![t] = "q_save"]
    /\ UNCHANGED <<status, kind, cliVars, supervisorVars, tRun, tUrs, tJob>>

\* run.status = status; run.save(); then flow.run(...)
HandlerSaveQueued(t) ==
    /\ tPc[t] = "q_save"
    /\ status' = [status EXCEPT ![tRun[t]] = RUN_STATUS_QUEUED]
    /\ tPc' = [tPc EXCEPT ![t] = "flow"]
    /\ UNCHANGED <<kind, cliVars, statusRows, supervisorVars, tRun, tUrs, tJob>>

\* ------------------------------------------- flow task: update_run_status
TaskGetRunning(t) ==
    /\ tPc[t] = "flow"
    /\ tUrs[t] = "get"
    /\ tUrs' = [tUrs EXCEPT ![t] = IF StatusExists(RUN_STATUS_RUNNING) THEN "save" ELSE "new"]
    /\ UNCHANGED <<status, kind, cliVars, statusRows, supervisorVars, tPc, tRun, tJob>>

TaskNewRunning(t) ==
    /\ tPc[t] = "flow"
    /\ tUrs[t] = "new"
    /\ statusRows' = StatusSave(statusRows, RUN_STATUS_RUNNING)
    /\ tUrs' = [tUrs EXCEPT ![t] = "save"]
    /\ UNCHANGED <<status, kind, cliVars, supervisorVars, tPc, tRun, tJob>>

\* Mutant: the task saves `running` on every persisted Run, not on its own.
TaskSaveRunning_AllRuns(t) ==
    /\ tPc[t] = "flow"
    /\ tUrs[t] = "save"
    /\ status' = [r \in Runs |-> IF status[r] = "none" THEN "none" ELSE RUN_STATUS_RUNNING]
    /\ tUrs' = [tUrs EXCEPT ![t] = "done"]
    /\ UNCHANGED <<kind, cliVars, statusRows, supervisorVars, tPc, tRun, tJob>>

TaskSaveRunning(t) ==
    /\ tPc[t] = "flow"
    /\ tUrs[t] = "save"
    /\ status' = [status EXCEPT ![tRun[t]] = RUN_STATUS_RUNNING]
    /\ tUrs' = [tUrs EXCEPT ![t] = "done"]
    /\ UNCHANGED <<kind, cliVars, statusRows, supervisorVars, tPc, tRun, tJob>>

\* --------------------------- flow tasks: render_template, execute_template
\* jinja2.Template(template_text).render(**kwargs): returns or raises.
RenderTemplate(t) ==
    /\ tPc[t] = "flow"
    /\ tJob[t] = "render"
    /\ tJob' = [tJob EXCEPT ![t] = IF kind[tRun[t]] = "bad_template" THEN "failed" ELSE "exec"]
    /\ UNCHANGED <<status, kind, cliVars, statusRows, supervisorVars, tPc, tRun, tUrs>>

\* The subprocess exit code of the Run's script.
ExitCode(r) == IF kind[r] = "exit_nonzero" THEN 1 ELSE 0

\* The state execute_template ends in: the exit code is not consulted.
ExecuteTemplateResult(code) == "done"

\* execute_template: run the script, wait for it, log its output.
ExecuteTemplate(t) ==
    /\ tPc[t] = "flow"
    /\ tJob[t] = "exec"
    /\ tJob' = [tJob EXCEPT ![t] = ExecuteTemplateResult(ExitCode(tRun[t]))]
    /\ UNCHANGED <<status, kind, cliVars, statusRows, supervisorVars, tPc, tRun, tUrs>>

\* ----------------------------------------------- pipeline thread: terminal
\* while not state.is_finished(); then the lookup of `failed` / `completed`.
HandlerGetTerminal(t) ==
    /\ tPc[t] = "flow"
    /\ FlowFinished(t)
    /\ tPc' = [tPc EXCEPT ![t] = IF StatusExists(TerminalName(t)) THEN "t_save" ELSE "t_new"]
    /\ UNCHANGED <<status, kind, cliVars, statusRows, supervisorVars, tRun, tUrs, tJob>>

HandlerNewTerminal(t) ==
    /\ tPc[t] = "t_new"
    /\ statusRows' = StatusSave(statusRows, TerminalName(t))
    /\ tPc' = [tPc EXCEPT ![t] = "t_save"]
    /\ UNCHANGED <<status, kind, cliVars, supervisorVars, tRun, tUrs, tJob>>

HandlerSaveTerminal(t) ==
    /\ tPc[t] = "t_save"
    /\ status' = [status EXCEPT ![tRun[t]] = TerminalName(t)]
    /\ tPc' = [tPc EXCEPT ![t] = "idle"]
    /\ tRun' = [tRun EXCEPT ![t] = 1]
    /\ tUrs' = [tUrs EXCEPT ![t] = "done"]
    /\ tJob' = [tJob EXCEPT ![t] = "done"]
    /\ UNCHANGED <<kind, cliVars, statusRows, supervisorVars>>

\* --------------------------------------------------------------------- Next
SupervisorStep == PollRaises \/ PollReturns \/ Dispatch \/ EndCycle \/ Sleep

ThreadStep(t) ==
    \/ HandlerGetQueued(t) \/ HandlerNewQueued(t) \/ HandlerSaveQueued(t)
    \/ TaskGetRunning(t) \/ TaskNewRunning(t) \/ TaskSaveRunning(t)
    \/ RenderTemplate(t) \/ ExecuteTemplate(t)
    \/ HandlerGetTerminal(t) \/ HandlerNewTerminal(t) \/ HandlerSaveTerminal(t)

Next ==
    \/ \E r \in Runs, k \in RunKinds : Submit(AllPresent, r, k)
    \/ StartScheduler
    \/ PollRaises
    \/ PollReturns
    \/ Dispatch
    \/ EndCycle
    \/ Sleep
    \/ \E t \in Threads : HandlerGetQueued(t)
    \/ \E t \in Threads : HandlerNewQueued(t)
    \/ \E t \in Threads : HandlerSaveQueued(t)
    \/ \E t \in Threads : TaskGetRunning(t)
    \/ \E t \in Threads : TaskNewRunning(t)
    \/ \E t \in Threads : TaskSaveRunning(t)
    \/ \E t \in Threads : RenderTemplate(t)
    \/ \E t \in Threads : ExecuteTemplate(t)
    \/ \E t \in Threads : HandlerGetTerminal(t)
    \/ \E t \in Threads : HandlerNewTerminal(t)
    \/ \E t \in Threads : HandlerSaveTerminal(t)

Spec == Init /\ [][Next]_vars

\* Fair scheduling: the daemon is started, the Supervisor thread and every
\* pipeline thread keep being scheduled, and the persistence query does not
\* raise forever. Submission is left to the caller.
FairSpec ==
    /\ Spec
    /\ WF_vars(StartScheduler)
    /\ WF_vars(SupervisorStep)
    /\ SF_vars(PollReturns)
    /\ \A t \in Threads : WF_vars(ThreadStep(t))

\* The command line alone: `coach submit` with any of its files missing.
CliNext == \E args \in CliArgSets, r \in Runs, k \in RunKinds : Submit(args, r, k)

CliSpec == Init /\ [][CliNext]_vars

\* The daemon with further start_scheduler calls on the same Coach.
CoachNext == Next \/ RestartScheduler

CoachSpec == Init /\ [][CoachNext]_vars

TypeOK ==
    /\ status \in [Runs -> StatusNames \cup {"none"}]
    /\ kind \in [Runs -> RunKinds]
    /\ statusRows \in [StatusNames -> 0..(MaxThreads + 1)]
    /\ cliArgs \in CliArgSets
    /\ scheduler \in BOOLEAN /\ executor \in BOOLEAN
    /\ schedulerInits \in 0..2 /\ executorInits \in 0..2 /\ executorOf \in 0..2
    /\ startCalls \in 0..MaxStartCalls
    /\ svPc \in {"init", "poll", "dispatch", "sleep"}
    /\ cycle \in {"none", "returned", "query_raised", "execute_raised"}
    /\ sleeps \in 0..2
    /\ execCalls \in [Runs -> 0..MaxExecCalls]
    /\ tPc \in [Threads -> {"idle", "q_get", "q_new", "q_save", "flow", "t_new", "t_save"}]
    /\ tRun \in [Threads -> Runs]
    /\ tUrs \in [Threads -> {"get", "new", "save", "done"}]
    /\ tJob \in [Threads -> {"render", "exec", "done", "failed"}]

\* ==================================================================== claims

\* C1: in every reachable state, every Run has at most one active execution
\* pipeline (a started _threaded_execution_handler thread that has not
\* returned).
C1_AtMostOnePipelinePerRun ==
    \A r \in Runs : Cardinality(ActiveOn(r)) <= 1

\* C2: Executor.execute(run_id) is invoked exactly once per Run: never a
\* second time, and a Run that has left `created` was handed over once.
C2_ExecuteExactlyOnce ==
    \A r \in Runs :
        /\ execCalls[r] <= 1
        /\ status[r] \notin {"none", RUN_STATUS_CREATED} => execCalls[r] = 1

\* C3: under fair scheduling, every Run in status `created` eventually has a
\* status different from `created`.
C3_CreatedEventuallyLeft ==
    \A r \in Runs : (status[r] = RUN_STATUS_CREATED) ~> (status[r] # RUN_STATUS_CREATED)

\* C4: under fair scheduling, every Run that is ever `created` eventually
\* reaches a terminal status, `completed` or `failed`.
C4_CreatedEventuallyTerminal ==
    \A r \in Runs : (status[r] = RUN_STATUS_CREATED) ~> (status[r] \in Terminal)

\* C5: the distinct statuses a Run holds over time form a subsequence of
\* created, queued, then completed or failed, the terminal status only after
\* queued: every change of a Run's status is created -> queued,
\* queued -> completed or queued -> failed.
C5_StatusSequence ==
    [][\A r \in Runs :
          (status[r] # "none" /\ status'[r] # status[r]) =>
              <<status[r], status'[r]>> \in
                  {<<RUN_STATUS_CREATED, RUN_STATUS_QUEUED>>,
                   <<RUN_STATUS_QUEUED, RUN_STATUS_COMPLETED>>,
                   <<RUN_STATUS_QUEUED, RUN_STATUS_FAILED>>}]_vars

\* C6: terminal statuses are absorbing: once a Run is `completed` or
\* `failed`, no step changes its status.
C6_TerminalAbsorbing ==
    [][\A r \in Runs : status[r] \in Terminal => status'[r] = status[r]]_vars

Rank(s) ==
    CASE s = "none" -> 0
      [] s = RUN_STATUS_CREATED -> 1
      [] s = RUN_STATUS_QUEUED -> 2
      [] s = RUN_STATUS_RUNNING -> 3
      [] OTHER -> 4

\* C7: no step moves a Run backward in the order
\* created < queued < running < {completed, failed}.
C7_NeverBackward ==
    [][\A r \in Runs : Rank(status'[r]) >= Rank(status[r])]_vars

\* C8: a Run whose script's subprocess exits non-zero never ends `completed`:
\* its terminal status is `failed`.
C8_NonZeroExitFails ==
    \A r \in Runs :
        (ExitCode(r) # 0 /\ status[r] \in Terminal) => status[r] = RUN_STATUS_FAILED

\* C9: a Run whose script object is absent from the object store ends
\* `failed`: once execute has been called for it and the poll cycle is over
\* with no pipeline of the Run left, the Run is not still `created` or
\* `queued`.
C9_FetchFailureFails ==
    \A r \in Runs :
        (kind[r] = "no_artifact" /\ execCalls[r] >= 1 /\ svPc = "sleep" /\ ActiveOn(r) = {})
            => status[r] = RUN_STATUS_FAILED

\* C10: the store holds at most one Status row per status name.
C10_NoDuplicateStatusRows ==
    \A n \in StatusNames : statusRows[n] <= 1

\* C11: the Supervisor loop never ends because of an error: after a query or
\* a dispatch that raised, the loop is at its sleep and can go on, and
\* whenever it is about to query again exactly one sleep has passed since the
\* previous query, whether that cycle succeeded or failed.
C11_LoopSurvivesErrors ==
    /\ svPc \in {"init", "poll", "dispatch", "sleep"}
    /\ svPc \in {"poll", "sleep"} => ENABLED SupervisorStep
    /\ cycle \in {"query_raised", "execute_raised"} => svPc \in {"sleep", "poll"}
    /\ (svPc = "poll" /\ cycle # "none") => sleeps = 1
    /\ svPc \in {"dispatch", "sleep"} => sleeps = 0

\* The query raised in the latest cycle, a dispatch raised in an earlier one,
\* and the loop is about to query again after one sleep.
C11_Witness ==
    /\ svPc = "poll"
    /\ sleeps = 1
    /\ cycle = "query_raised"
    /\ \E r \in Runs : ExecuteRaises(r) /\ execCalls[r] >= 1

\* C12: an error local to one Run does not keep the other Runs discovered in
\* the same poll cycle from being dispatched in that cycle: when the cycle is
\* over, no Run after the one being dispatched is left in the query result.
C12_OtherRunsStillDispatched ==
    svPc = "sleep" => Len(new_runs) <= 1

\* C14: no step of the Supervisor (start, query, dispatch, end of cycle,
\* sleep) changes a Run's status, a raising query included, and every change
\* of the status of a persisted Run is a step of a pipeline thread.
C14_SupervisorNeverWritesStatus ==
    [][/\ (StartScheduler \/ SupervisorStep) => status' = status
       /\ (\E r \in Runs : status[r] # "none" /\ status'[r] # status[r])
              => \E t \in Threads : ThreadStep(t)]_vars

\* The query of the latest cycle raised while one Run was `created` and
\* another had been moved on by its pipeline.
C14_Witness ==
    /\ svPc = "sleep"
    /\ cycle = "query_raised"
    /\ \E r \in Runs : status[r] = RUN_STATUS_CREATED
    /\ \E r \in Runs : status[r] \in {RUN_STATUS_QUEUED, RUN_STATUS_RUNNING} \cup Terminal

\* C19: over any sequence of start_scheduler calls and poll cycles the
\* Scheduler is constructed at most once and the Executor at most once, the
\* Executor holds the one Scheduler, and no step constructs either while a
\* pipeline is in flight.
C19_LazySingletons ==
    /\ [](/\ schedulerInits <= 1
          /\ executorInits <= 1
          /\ scheduler <=> schedulerInits = 1
          /\ executor <=> executorInits = 1
          /\ executor => (scheduler /\ executorOf = schedulerInits)
          /\ svPc # "init" => (scheduler /\ executor))
    /\ [][(\E t \in Threads : Active(t)) =>
              (schedulerInits' = schedulerInits /\ executorInits' = executorInits
                  /\ executorOf' = executorOf)]_vars

\* start_scheduler was called a second time while a pipeline was in flight,
\* and the Supervisor has dispatched in more than one poll cycle.
C19_Witness ==
    /\ startCalls = 2
    /\ schedulerInits = 1 /\ executorInits = 1
    /\ \E t \in Threads : Active(t)
    /\ \E r \in Runs : execCalls[r] >= 2

\* C20: when execute(run_id) raises while the pipeline is built, no pipeline
\* thread is started and the Run is left in status `created`.
C20_RaisingExecuteStartsNothing ==
    [][(Dispatch /\ ExecuteRaises(Head(new_runs))) =>
          /\ threadVars' = threadVars
          /\ status' = status
          /\ status'[Head(new_runs)] = RUN_STATUS_CREATED
          /\ ActiveOn(Head(new_runs)) = {}]_vars

\* execute raised for the Run the cycle stopped at: it is `created` and has
\* no pipeline, while a pipeline of another Run is active.
C20_Witness ==
    /\ svPc = "sleep"
    /\ cycle = "execute_raised"
    /\ new_runs # <<>>
    /\ status[Head(new_runs)] = RUN_STATUS_CREATED
    /\ ActiveOn(Head(new_runs)) = {}
    /\ \E t \in Threads : Active(t)

\* The finished state the flow of a Run ends in: Failed when the template
\* does not render, Success otherwise.
BackendOutcome(r) ==
    IF kind[r] = "bad_template" THEN RUN_STATUS_FAILED ELSE RUN_STATUS_COMPLETED

\* The statements a pipeline thread still has to execute, at most.
StepsLeft(t) ==
    (CASE tPc[t] = "q_get" -> 6 [] tPc[t] = "q_new" -> 5 [] tPc[t] = "q_save" -> 4
       [] tPc[t] = "flow" -> 3 [] tPc[t] = "t_new" -> 2 [] tPc[t] = "t_save" -> 1
       [] OTHER -> 0)
    + (CASE tUrs[t] = "get" -> 3 [] tUrs[t] = "new" -> 2 [] tUrs[t] = "save" -> 1 [] OTHER -> 0)
    + (CASE tJob[t] = "render" -> 2 [] tJob[t] = "exec" -> 1 [] OTHER -> 0)

\* C13: pipelines of distinct Runs do not interfere: a step of the pipeline
\* of one Run leaves every other Run's status unchanged; every pipeline
\* reaches its end whatever the other pipelines do (it can always take a
\* step, each step brings it nearer to its end, so a fairly scheduled thread
\* returns) and its last step writes the terminal status of its own Run's
\* backend outcome; once no pipeline of a dispatched Run is left, the Run
\* holds that terminal status.
C13_DistinctRunsDoNotInterfere ==
    /\ [][\A t \in Threads : ThreadStep(t) =>
              /\ \A r \in Runs \ {tRun[t]} : status'[r] = status[r]
              /\ StepsLeft(t)' < StepsLeft(t)
              /\ tPc'[t] = "idle" => status'[tRun[t]] = BackendOutcome(tRun[t])]_vars
    /\ [](\A t \in Threads : Active(t) => ENABLED ThreadStep(t))
    /\ [](\A r \in Runs : (status[r] \notin {"none", RUN_STATUS_CREATED} /\ ActiveOn(r) = {}) =>
              status[r] = BackendOutcome(r))

\* Two pipelines of distinct Runs are active at once, one Run `running` and
\* the other `queued`, with different backend outcomes ahead.
C13_Witness ==
    \E t, u \in Threads :
        /\ Active(t) /\ Active(u) /\ tRun[t] # tRun[u]
        /\ status[tRun[t]] = RUN_STATUS_RUNNING
        /\ status[tRun[u]] = RUN_STATUS_QUEUED
        /\ BackendOutcome(tRun[t]) # BackendOutcome(tRun[u])

\* C15: a `coach submit` whose config file, python script, job config or
\* model config does not exist creates no Run: the step of such a command
\* leaves the persisted Runs and the Status rows as they were.
C15_FailedPreconditionCreatesNoRun ==
    [][(~cliArgs'.config \/ ~cliArgs'.python_script \/ ~cliArgs'.job_config
            \/ ~cliArgs'.model_config) =>
          (status' = status /\ kind' = kind /\ statusRows' = statusRows)]_vars

\* After one Run was submitted, a submit with only the model config missing
\* was refused while a further Run could still have been created.
C15_Witness ==
    /\ cliOut = "Model config does not exist."
    /\ cliArgs = [AllPresent EXCEPT !.model_config = FALSE]
    /\ \E r \in Runs : status[r] = RUN_STATUS_CREATED
    /\ \E r \in Runs : status[r] = "none"

\* C16: within one pipeline `queued` is written before the flow is
\* submitted (no task has started while the handler is before flow.run, and
\* the step that enters flow.run is the one that saves `queued`), and the
\* `running` write of update_run_status happens inside flow.run: after the
\* `queued` write and before the handler's terminal lookup and write.
C16_QueuedThenRunningThenTerminal ==
    /\ [](\A t \in Threads :
            /\ tPc[t] \in {"q_get", "q_new", "q_save"} => (tUrs[t] = "get" /\ tJob[t] = "render")
            /\ tPc[t] \in {"t_new", "t_save"} => tUrs[t] = "done")
    /\ [][\A t \in Threads :
            /\ (tPc[t] # "flow" /\ tPc'[t] = "flow") => status'[tRun[t]] = RUN_STATUS_QUEUED
            /\ (tUrs[t] = "save" /\ tUrs'[t] = "done") =>
                   (tPc[t] = "flow" /\ tPc'[t] = "flow" /\ status'[tRun[t]] = RUN_STATUS_RUNNING)]_vars

\* A pipeline is about to save its terminal status, its `running` write done.
C16_Witness ==
    \E t \in Threads :
        /\ tPc[t] = "t_save"
        /\ tUrs[t] = "done"
        /\ status[tRun[t]] = RUN_STATUS_RUNNING

\* C17: a Run becomes `completed` only by the save of a pipeline of that Run
\* whose flow run is finished and successful, and `failed` only by one whose
\* flow run is finished and failed.
C17_TerminalMatchesBackend ==
    [][\A r \in Runs :
          (status'[r] # status[r] /\ status'[r] \in Terminal) =>
              \E t \in Threads :
                  /\ tRun[t] = r /\ tPc[t] = "t_save" /\ tPc'[t] = "idle"
                  /\ FlowFinished(t)
                  /\ status'[r] = RUN_STATUS_COMPLETED => FlowSuccessful(t)
                  /\ status'[r] = RUN_STATUS_FAILED => FlowFailed(t)]_vars

\* One Run has ended `completed` and another `failed`.
C17_Witness ==
    /\ \E r \in Runs : status[r] = RUN_STATUS_COMPLETED
    /\ \E r \in Runs : status[r] = RUN_STATUS_FAILED

\* C18: dispatch is fire-and-forget: a dispatch is possible whatever the
\* earlier pipelines are doing (thread slots permitting), and the step that
\* starts a pipeline leaves the new thread at its first statement, advances
\* no other pipeline and writes no status.
C18_FireAndForget ==
    /\ []((svPc = "dispatch" /\ new_runs # <<>> /\ FreeThreads # {}) => ENABLED Dispatch)
    /\ [][(Dispatch /\ ~ExecuteRaises(Head(new_runs))) =>
              /\ svPc' = "dispatch"
              /\ status' = status
              /\ \A t \in Threads : Active(t) => (tPc'[t] = tPc[t] /\ tUrs'[t] = tUrs[t])
              /\ \E t \in Threads : ~Active(t) /\ tPc'[t] = "q_get" /\ tRun'[t] = Head(new_runs)]_vars

\* A later poll cycle is about to start while the pipelines of two Runs,
\* dispatched before, have not finished.
C18_Witness ==
    /\ svPc = "poll"
    /\ sleeps = 1
    /\ \E t, u \in Threads : Active(t) /\ Active(u) /\ tRun[t] # tRun[u]
====
